---- MODULE Spec2Model ----
(***************************************************************************)
(* Model of design_bench/oracles/approximate/gaussian_process_oracle.py:   *)
(* the DiscreteSequenceKernel, GaussianProcessOracle.fit and the two zip   *)
(* (de)serialization hooks.                                                *)
(*                                                                         *)
(* Real-valued kernel entries are kept in tenths (0.9 is 9, 0.1 is 1,      *)
(* 1.0 is 10), which is exact for every value the code computes here.      *)
(***************************************************************************)
EXTENDS Integers, Sequences, FiniteSets, TLC

VARIABLES dataset, last, kernel_matrix, X, gram, diag_out, archive, saved, loaded

vars == <<dataset, last, kernel_matrix, X, gram, diag_out, archive, saved, loaded>>

fitVars == <<dataset, last>>
kernelVars == <<kernel_matrix, X, gram, diag_out>>
zipVars == <<archive, saved, loaded>>

(***************************************************************************)
(* Bounds of the model.                                                    *)
(***************************************************************************)
MaxN == 3
MaxSamples == 3
MaxClasses == 2
NumTokens == 2
MaxSeqLen == 2
MaxBatch == 2
MaxModelLen == 2
MaxSaves == 3

Min(a, b) == IF a <= b THEN a ELSE b

Range(s) == {s[i] : i \in 1..Len(s)}

(* sequences over S of length exactly n / at most n *)
SeqsOfLen(S, n) == [1..n -> S]
SeqsUpTo(S, n) == UNION {SeqsOfLen(S, k) : k \in 0..n}

(***************************************************************************)
(* Kernel values.  A kernel argument is None, an ndarray (a square matrix  *)
(* indexed from 0) or an sklearn Kernel object.                            *)
(***************************************************************************)
NoneKernel == [type |-> "None"]

ndarray(m) == [type |-> "ndarray", m |-> m]

(* np.eye(n) and np.ones((n, n)) *)
eye(n) == [i \in 0..(n - 1) |-> [j \in 0..(n - 1) |-> IF i = j THEN 1 ELSE 0]]
ones(n) == [i \in 0..(n - 1) |-> [j \in 0..(n - 1) |-> 1]]

EyeCoeff == 9
OnesCoeff == 1

(* the variant that adds 0.1 off the diagonal only *)
DefaultKernelMatrixExclusive(n) ==
    [i \in 0..(n - 1) |-> [j \in 0..(n - 1) |->
        EyeCoeff * eye(n)[i][j] + OnesCoeff * (ones(n)[i][j] - eye(n)[i][j])]]

(* kernel = 0.9 * np.eye(n) + 0.1 * np.ones((n, n)), in tenths *)
DefaultKernelMatrix(n) ==
    [i \in 0..(n - 1) |-> [j \in 0..(n - 1) |->
        EyeCoeff * eye(n)[i][j] + OnesCoeff * ones(n)[i][j]]]

DiscreteSequenceKernel(k) == [type |-> "DiscreteSequenceKernel", kernel_matrix |-> k]

RBF == [type |-> "RBF", length_scale |-> "1.0",
        length_scale_bounds |-> <<"1e-5", "1e5">>]

(* the wrapping done only for the default matrix *)
SelectKernelWrapDefaultOnly(ds, kernel) ==
    IF ds.discrete
    THEN IF kernel = NoneKernel
         THEN DiscreteSequenceKernel(ndarray(DefaultKernelMatrix(ds.num_classes)))
         ELSE kernel
    ELSE IF kernel = NoneKernel THEN RBF ELSE kernel

(* lines 214-224 of fit: the kernel handed to GaussianProcessRegressor *)
SelectKernel(ds, kernel) ==
    IF ds.discrete
    THEN DiscreteSequenceKernel(
            IF kernel = NoneKernel
            THEN ndarray(DefaultKernelMatrix(ds.num_classes))
            ELSE kernel)
    ELSE IF kernel = NoneKernel THEN RBF ELSE kernel

(* kernels a caller supplies in the model *)
AsymMatrix == [i \in 0..1 |-> [j \in 0..1 |-> IF i < j THEN 5 ELSE 0]]
SuppliedKernels == {ndarray(AsymMatrix), [type |-> "Matern"]}
KernelArgs == {NoneKernel} \cup SuppliedKernels

(***************************************************************************)
(* The dataset object: only what fit consumes.  An array is a record of    *)
(* its dtype, the dataset rows its rows come from, and which transforms    *)
(* have been applied to it.                                                *)
(***************************************************************************)
Datasets ==
    [discrete : BOOLEAN, x_floating : BOOLEAN, N : 0..MaxN,
     num_classes : 1..MaxClasses, _disable_transform : BOOLEAN]

(* dataset.x and dataset.y : all N rows, raw iff the transform is disabled *)
DatasetX(ds) ==
    [dtype |-> IF ds.x_floating THEN "float" ELSE "int",
     rows |-> [k \in 1..ds.N |-> k - 1],
     raw |-> ds._disable_transform,
     to_integers |-> FALSE, normalized |-> FALSE]

DatasetY(ds) ==
    [dtype |-> "float",
     rows |-> [k \in 1..ds.N |-> k - 1],
     raw |-> ds._disable_transform,
     to_integers |-> FALSE, normalized |-> FALSE]

to_integers(x) == [x EXCEPT !.dtype = "int", !.to_integers = TRUE]
normalize_x(x) == [x EXCEPT !.dtype = "float", !.normalized = TRUE]
normalize_y(y) == [y EXCEPT !.dtype = "float", !.normalized = TRUE]

EmptyArray ==
    [dtype |-> "float", rows |-> <<>>, raw |-> FALSE,
     to_integers |-> FALSE, normalized |-> FALSE]

(***************************************************************************)
(* Sub-sampling.                                                           *)
(***************************************************************************)
SampleSizeAll(n, max_samples) == n

(* size=min(y.shape[0], max_samples) *)
SampleSize(n, max_samples) == Min(n, max_samples)

IsInjective(s) == \A i, j \in 1..Len(s) : s[i] = s[j] => i = j

(* np.random.choice(n, replace=False, size=size): every outcome *)
Choice(n, size) == {s \in SeqsOfLen(0..(n - 1), size) : IsInjective(s)}

(* a[indices] *)
Index(a, indices) ==
    [a EXCEPT !.rows = [k \in 1..Len(indices) |-> a.rows[indices[k] + 1]]]

SubsampleHead(x, y, indices) ==
    [x |-> Index(x, indices),
     y |-> [y EXCEPT !.rows = [k \in 1..Len(indices) |-> y.rows[k]]]]

(* x = x[indices]; y = y[indices] *)
Subsample(x, y, indices) ==
    [x |-> Index(x, indices), y |-> Index(y, indices)]

(* the dtype test of line 248 made on the stored array instead *)
PreprocessXStoredDtype(ds, x) ==
    LET xi == IF ds.discrete /\ x.dtype = "float" THEN to_integers(x) ELSE x
    IN  IF x.dtype = "float" THEN normalize_x(xi) ELSE xi

(* lines 244-249: to_integers for a discrete float x, then normalize_x   *)
(* for whatever is floating-point at that point                          *)
PreprocessX(ds, x) ==
    LET xi == IF ds.discrete /\ x.dtype = "float" THEN to_integers(x) ELSE x
    IN  IF xi.dtype = "float" THEN normalize_x(xi) ELSE xi

(***************************************************************************)
(* fit.  A call either returns the model or raises at one of its steps;    *)
(* failAt names the step that raises ("none": no step raises).             *)
(***************************************************************************)
Steps == <<"constructor", "x", "y", "subsample", "to_integers",
           "normalize_x", "normalize_y", "model_fit">>

FailPoints == Range(Steps) \cup {"none"}

Pos(step) == CHOOSE k \in 1..Len(Steps) : Steps[k] = step

(* the step was started / was completed in a call that raises at failAt *)
Started(step, failAt) == failAt = "none" \/ Pos(failAt) >= Pos(step)
Completed(step, failAt) == failAt = "none" \/ Pos(failAt) > Pos(step)

NoCall ==
    [outcome |-> "none", failed_at |-> "none", pre_disable |-> FALSE,
     kernel_arg |-> NoneKernel, max_samples |-> 0, kernel |-> NoneKernel,
     sampled |-> FALSE, indices |-> <<>>, fit_called |-> FALSE,
     fit_x |-> EmptyArray, fit_y |-> EmptyArray]

(* the flag is left set by every exit after line 231 but the return *)
FlagAfter(ds, failAt) ==
    IF failAt = "constructor" THEN ds._disable_transform
    ELSE IF failAt = "none" THEN FALSE
    ELSE TRUE

Fit(kernel, max_samples, indices, failAt) ==
    LET ds == dataset
        k == SelectKernel(ds, kernel)
        ds1 == [ds EXCEPT !._disable_transform = TRUE]
        x0 == DatasetX(ds1)
        y0 == DatasetY(ds1)
        sub == Subsample(x0, y0, indices)
        x2 == PreprocessX(ds, sub.x)
        y2 == normalize_y(sub.y)
        sampled == Completed("subsample", failAt)
        called == Started("model_fit", failAt)
    IN  /\ failAt = "to_integers" => ds.discrete /\ ds.x_floating
        /\ failAt = "normalize_x" => ~ds.discrete /\ ds.x_floating
        \* the regression library rejects an empty training set
        /\ failAt = "none" => Len(indices) > 0
        /\ dataset' = [ds EXCEPT !._disable_transform = FlagAfter(ds, failAt)]
        /\ last' = [outcome |-> IF failAt = "none" THEN "returned" ELSE "raised",
                    failed_at |-> failAt,
                    pre_disable |-> ds._disable_transform,
                    kernel_arg |-> kernel,
                    max_samples |-> max_samples,
                    kernel |-> k,
                    sampled |-> sampled,
                    indices |-> IF sampled THEN indices ELSE <<>>,
                    fit_called |-> called,
                    fit_x |-> IF called THEN x2 ELSE EmptyArray,
                    fit_y |-> IF called THEN y2 ELSE EmptyArray]
        /\ UNCHANGED <<kernelVars, zipVars>>

InitFit ==
    /\ dataset \in Datasets
    /\ last = NoCall
    /\ kernel_matrix = <<>> /\ X = <<>> /\ gram = <<>> /\ diag_out = <<>>
    /\ archive = <<>> /\ saved = <<>> /\ loaded = <<>>

NextFit ==
    \E kernel \in KernelArgs, max_samples \in 0..MaxSamples, failAt \in FailPoints :
        \E indices \in Choice(dataset.N, SampleSize(dataset.N, max_samples)) :
            Fit(kernel, max_samples, indices, failAt)

Spec == InitFit /\ [][NextFit]_vars

(***************************************************************************)
(* DiscreteSequenceKernel.  A token sequence is a sequence of indices into *)
(* the kernel matrix, a batch is a sequence of token sequences, and the    *)
(* optional argument Y is <<>> for None and <<B>> for a batch B.           *)
(***************************************************************************)
Tokens == 0..(NumTokens - 1)
KernelEntries == {0, 1}
KernelMatrices == [Tokens -> [Tokens -> KernelEntries]]
TokenSeqs == UNION {SeqsOfLen(Tokens, k) : k \in 1..MaxSeqLen}
Batches == UNION {SeqsOfLen(TokenSeqs, k) : k \in 1..MaxBatch}
NoneBatch == <<>>
YArgs == {NoneBatch} \cup {<<(<<(<<t>>)>>)>> : t \in Tokens}

RECURSIVE SumSeq(_)
SumSeq(s) == IF s = <<>> THEN 0 ELSE s[1] + SumSeq(Tail(s))

(* the sum taken over matching positions only *)
evaluate_kernel_positional(km, x, y) ==
    SumSeq([i \in 1..Min(Len(x), Len(y)) |-> km[x[i]][y[i]]])

(* self.kernel_matrix[x][:, y].sum(): rows x, then columns y, summed *)
evaluate_kernel(km, x, y) ==
    SumSeq([i \in 1..Len(x) |-> SumSeq([j \in 1..Len(y) |-> km[x[i]][y[j]]])])

(* the entry of the one sequence with itself, times its length *)
diag_first_token(km, Xb) ==
    [i \in 1..Len(Xb) |-> Len(Xb[i]) * Len(Xb[i]) * km[Xb[i][1]][Xb[i][1]]]

(* np.array([self.evaluate_kernel(x, x) for x in X]) *)
diag(km, Xb) == [i \in 1..Len(Xb) |-> evaluate_kernel(km, Xb[i], Xb[i])]

(* __call__(X, Y=None): [[evaluate_kernel(x, y) for y in (X if Y is None else Y)] for x in X] *)
call(km, Xb, Y) ==
    LET Yb == IF Y = NoneBatch THEN Xb ELSE Y[1]
    IN  [i \in 1..Len(Xb) |-> [j \in 1..Len(Yb) |-> evaluate_kernel(km, Xb[i], Yb[j])]]

NotCalled == [called |-> FALSE, Y |-> NoneBatch, K |-> <<>>]
NoDiag == [called |-> FALSE, d |-> <<>>]

Call(Y) ==
    /\ gram' = [called |-> TRUE, Y |-> Y, K |-> call(kernel_matrix, X, Y)]
    /\ UNCHANGED <<kernel_matrix, X, diag_out, fitVars, zipVars>>

Diag ==
    /\ diag_out' = [called |-> TRUE, d |-> diag(kernel_matrix, X)]
    /\ UNCHANGED <<kernel_matrix, X, gram, fitVars, zipVars>>

InitKernel ==
    /\ kernel_matrix \in KernelMatrices
    /\ X \in Batches
    /\ gram = NotCalled
    /\ diag_out = NoDiag
    /\ dataset = <<>> /\ last = <<>>
    /\ archive = <<>> /\ saved = <<>> /\ loaded = <<>>

NextKernel == (\E Y \in YArgs : Call(Y)) \/ Diag

SpecKernel == InitKernel /\ [][NextKernel]_vars

IsSymmetric(km) == \A a, b \in DOMAIN km : km[a][b] = km[b][a]

(***************************************************************************)
(* Persistence.  The archive is the ZipFile's list of entries in the order *)
(* they were written; a model is a tuple of small integers and is pickled  *)
(* (protocol 2) to a byte string.                                          *)
(***************************************************************************)
Models == SeqsUpTo({0, 1}, MaxModelLen)

Op == [PROTO |-> 128, MARK |-> 40, BININT1 |-> 75, TUPLE |-> 116,
       EMPTY_TUPLE |-> 41, BINPUT |-> 113, STOP |-> 46]

RECURSIVE EncodeItems(_)
EncodeItems(m) ==
    IF m = <<>> THEN <<>>
    ELSE <<Op.BININT1, m[1]>> \o EncodeItems(Tail(m))

(* pkl.dump(model, file) *)
dump(m) ==
    <<Op.PROTO, 2>> \o
    (IF m = <<>> THEN <<Op.EMPTY_TUPLE>>
     ELSE <<Op.MARK>> \o EncodeItems(m) \o <<Op.TUPLE, Op.BINPUT, 0>>) \o
    <<Op.STOP>>

(* the unpickler: run the opcodes from position p with the stack stk *)
RECURSIVE Run(_, _, _)
Run(b, p, stk) ==
    IF p > Len(b) THEN <<>>
    ELSE IF b[p] = Op.STOP THEN stk
    ELSE IF b[p] = Op.PROTO THEN Run(b, p + 2, stk)
    ELSE IF b[p] = Op.MARK THEN Run(b, p + 1, <<>>)
    ELSE IF b[p] = Op.BININT1 THEN Run(b, p + 2, Append(stk, b[p + 1]))
    ELSE IF b[p] = Op.TUPLE THEN Run(b, p + 1, stk)
    ELSE IF b[p] = Op.EMPTY_TUPLE THEN Run(b, p + 1, <<>>)
    ELSE IF b[p] = Op.BINPUT THEN Run(b, p + 2, stk)
    ELSE <<>>

(* pkl.load(file) *)
load(b) == Run(b, 1, <<>>)

SaveEntryName == "gaussian_process.pkl"

LoadEntryNameStale == "random_forest.pkl"

LoadEntryName == "gaussian_process.pkl"

(* zip_archive.open(name, "r"): the entry last written under the name *)
HasEntry(a, name) == \E k \in 1..Len(a) : a[k].name = name
GetInfo(a, name) ==
    a[CHOOSE k \in 1..Len(a) :
        /\ a[k].name = name
        /\ \A j \in (k + 1)..Len(a) : a[j].name # name]

NotLoaded == [done |-> FALSE, raised |-> FALSE, value |-> <<>>, at |-> 0]

(* archives the caller hands in: empty, or holding entries of other names *)
InitialArchives ==
    {<<>>,
     <<[name |-> "random_forest.pkl", data |-> dump(<<1>>)]>>}

save_model_to_zip(model) ==
    /\ Len(saved) < MaxSaves
    /\ archive' = Append(archive, [name |-> SaveEntryName, data |-> dump(model)])
    /\ saved' = Append(saved, model)
    /\ UNCHANGED <<loaded, fitVars, kernelVars>>

load_model_from_zip ==
    /\ loaded' =
         IF HasEntry(archive, LoadEntryName)
         THEN [done |-> TRUE, raised |-> FALSE,
               value |-> load(GetInfo(archive, LoadEntryName).data),
               at |-> Len(saved)]
         ELSE [done |-> TRUE, raised |-> TRUE, value |-> <<>>, at |-> Len(saved)]
    /\ UNCHANGED <<archive, saved, fitVars, kernelVars>>

InitZip ==
    /\ archive \in InitialArchives
    /\ saved = <<>>
    /\ loaded = NotLoaded
    /\ dataset = <<>> /\ last = <<>>
    /\ kernel_matrix = <<>> /\ X = <<>> /\ gram = <<>> /\ diag_out = <<>>

NextZip == (\E model \in Models : save_model_to_zip(model)) \/ load_model_from_zip

SpecZip == InitZip /\ [][NextZip]_vars

(***************************************************************************)
(* Properties of fit (specification Spec).                                 *)
(***************************************************************************)
AfterDisable == Range(Steps) \ {"constructor"}

(* C1: after fit has returned or raised, the dataset's transform flag     *)
(* equals the value it had immediately before the call.                   *)
C1_TransformRestored ==
    last.outcome # "none" => dataset._disable_transform = last.pre_disable

(* C2: when fit is entered with the transform enabled and a step after    *)
(* the disable raises, the transform is enabled again once the exception  *)
(* reaches the caller.                                                    *)
C2_RestoredOnException ==
    (last.outcome = "raised" /\ ~last.pre_disable /\ last.failed_at \in AfterDisable)
        => ~dataset._disable_transform

(* C3: the rows handed to the regression model are exactly               *)
(* min(N, max_samples) many, each a row index in 0..N-1, none twice.      *)
C3_SampleBound ==
    (last.sampled =>
        /\ Len(last.indices) = Min(dataset.N, last.max_samples)
        /\ Range(last.indices) \subseteq 0..(dataset.N - 1)
        /\ IsInjective(last.indices))
    /\ (last.fit_called =>
        /\ Len(last.fit_x.rows) = Min(dataset.N, last.max_samples)
        /\ Len(last.fit_x.rows) <= dataset.N
        /\ Len(last.fit_x.rows) <= last.max_samples
        /\ Range(last.fit_x.rows) \subseteq 0..(dataset.N - 1)
        /\ IsInjective(last.fit_x.rows))

C3_Witness ==
    /\ last.fit_called
    /\ last.max_samples > 0
    /\ last.max_samples < dataset.N
    /\ Len(last.fit_x.rows) = last.max_samples

DefaultCase ==
    last.outcome # "none" /\ dataset.discrete /\ last.kernel_arg = NoneKernel

(* C4 as stated: the default similarity matrix of a discrete dataset is   *)
(* n x n with every diagonal entry 0.9 and every off-diagonal entry 0.1.  *)
C4_DiagonalNineTenths ==
    DefaultCase =>
        LET m == last.kernel.kernel_matrix.m
            n == dataset.num_classes
        IN  /\ DOMAIN m = 0..(n - 1)
            /\ \A i \in 0..(n - 1) :
                 /\ DOMAIN m[i] = 0..(n - 1)
                 /\ \A j \in 0..(n - 1) : m[i][j] = IF i = j THEN 9 ELSE 1

(* C4 amended: the default similarity matrix of a discrete dataset is     *)
(* n x n with every diagonal entry 1.0 (0.9 + 0.1) and every              *)
(* off-diagonal entry 0.1.                                                *)
C4_DiagonalOne ==
    DefaultCase =>
        LET m == last.kernel.kernel_matrix.m
            n == dataset.num_classes
        IN  /\ DOMAIN m = 0..(n - 1)
            /\ \A i \in 0..(n - 1) :
                 /\ DOMAIN m[i] = 0..(n - 1)
                 /\ \A j \in 0..(n - 1) : m[i][j] = IF i = j THEN 10 ELSE 1

C4_Witness == DefaultCase /\ dataset.num_classes >= 2

C9_KernelSelection ==
    last.outcome # "none" =>
        /\ (dataset.discrete /\ last.kernel_arg = NoneKernel) =>
              last.kernel = [type |-> "DiscreteSequenceKernel",
                             kernel_matrix |-> ndarray(DefaultKernelMatrix(dataset.num_classes))]
        /\ (dataset.discrete /\ last.kernel_arg # NoneKernel) =>
              last.kernel = [type |-> "DiscreteSequenceKernel",
                             kernel_matrix |-> last.kernel_arg]
        /\ (~dataset.discrete /\ last.kernel_arg = NoneKernel) =>
              /\ last.kernel.type = "RBF"
              /\ last.kernel.length_scale = "1.0"
              /\ last.kernel.length_scale_bounds = <<"1e-5", "1e5">>
        /\ (~dataset.discrete /\ last.kernel_arg # NoneKernel) =>
              last.kernel = last.kernel_arg
        /\ dataset.discrete => last.kernel.type = "DiscreteSequenceKernel"

C9_Witness ==
    /\ last.outcome # "none"
    /\ dataset.discrete
    /\ last.kernel_arg \in SuppliedKernels
    /\ last.kernel.kernel_matrix = last.kernel_arg

(* C10: x and y are read raw, and the k-th input row and the k-th target  *)
(* handed to the regression model both come from dataset row indices[k].  *)
C10_PairsAligned ==
    last.fit_called =>
        /\ last.fit_x.raw /\ last.fit_y.raw
        /\ Len(last.fit_x.rows) = Len(last.indices)
        /\ Len(last.fit_y.rows) = Len(last.indices)
        /\ \A k \in 1..Len(last.indices) :
             /\ last.fit_x.rows[k] = last.indices[k]
             /\ last.fit_y.rows[k] = last.indices[k]

C10_Witness ==
    /\ last.fit_called
    /\ Len(last.indices) >= 2
    /\ last.indices[1] > last.indices[2]
    /\ last.fit_y.rows = last.indices

(***************************************************************************)
(* Properties of the kernel (specification SpecKernel).                    *)
(***************************************************************************)
(* C5: diag(X)[i] equals evaluate_kernel(X[i], X[i]) and equals the       *)
(* diagonal entry K(X)[i][i] of the Gram matrix of X, for every i.        *)
C5_DiagMatchesGram ==
    /\ diag_out.called =>
         /\ Len(diag_out.d) = Len(X)
         /\ \A i \in 1..Len(X) : diag_out.d[i] = evaluate_kernel(kernel_matrix, X[i], X[i])
    /\ (diag_out.called /\ gram.called /\ gram.Y = NoneBatch) =>
         \A i \in 1..Len(X) : diag_out.d[i] = gram.K[i][i]

C5_Witness ==
    /\ diag_out.called /\ gram.called /\ gram.Y = NoneBatch
    /\ Len(X) >= 2
    /\ \E i \in 1..Len(X) : Len(X[i]) >= 2 /\ X[i][1] # X[i][2] /\ diag_out.d[i] > 0

GramOfX == gram.called /\ gram.Y = NoneBatch

(* C6 as stated: for every kernel matrix, symmetric or not, the Gram      *)
(* matrix of a single batch X is symmetric.                               *)
C6_GramSymmetricAlways ==
    GramOfX => \A i, j \in 1..Len(X) : gram.K[i][j] = gram.K[j][i]

(* C6 amended: for every symmetric kernel matrix, the Gram matrix of a    *)
(* single batch X is symmetric, each entry being the sum of               *)
(* kernel_matrix[a][b] over all token pairs (a in X[i], b in X[j]).       *)
C6_GramSymmetricForSymmetricMatrix ==
    (GramOfX /\ IsSymmetric(kernel_matrix)) =>
        /\ \A i, j \in 1..Len(X) : gram.K[i][j] = gram.K[j][i]
        /\ \A i, j \in 1..Len(X) :
             gram.K[i][j] =
                SumSeq([p \in 1..Len(X[i]) |->
                    SumSeq([q \in 1..Len(X[j]) |-> kernel_matrix[X[i][p]][X[j][q]]])])

C6_Witness ==
    /\ GramOfX /\ IsSymmetric(kernel_matrix)
    /\ Len(X) >= 2
    /\ X[1] # X[2]
    /\ gram.K[1][2] > 0
    /\ gram.K[1][2] # gram.K[1][1]

(***************************************************************************)
(* Properties of the persistence hooks (specification SpecZip).            *)
(***************************************************************************)
(* C7: a load that follows a save returns the model saved last, both use  *)
(* the one entry name gaussian_process.pkl, and every save adds one entry *)
(* of that name.                                                          *)
C7_RoundTrip ==
    /\ (loaded.done /\ loaded.at > 0) =>
         /\ ~loaded.raised
         /\ loaded.value = saved[loaded.at]
    /\ (loaded.done /\ loaded.at = 0) => loaded.raised
    /\ Cardinality({k \in 1..Len(archive) : archive[k].name = "gaussian_process.pkl"})
         = Len(saved)
    /\ \A k \in 1..Len(saved) :
         load(archive[Len(archive) - Len(saved) + k].data) = saved[k]

C7_Witness ==
    /\ loaded.done /\ ~loaded.raised
    /\ loaded.at >= 2
    /\ saved[loaded.at] # saved[loaded.at - 1]
    /\ loaded.value = saved[loaded.at]
    /\ Len(loaded.value) >= 2

====
